---- MODULE Spec2Model ----
(***************************************************************************)
(* Model of the daily-quote typewriter of src/script.js (AnimationSystem): *)
(* the orchestration set up by setupTypewriterEffect, the fetcher          *)
(* fetchDailyQuote with its sanitising and truncation, and the renderer    *)
(* startTypewriterAnimation / startCursorBlink.                            *)
(*                                                                         *)
(* A JavaScript string is a sequence of UTF-16 code units (integers).      *)
(* The browser is single threaded: every action below is one task of the   *)
(* event loop (a timer callback or a network event) together with the      *)
(* microtasks (promise continuations) it triggers.                         *)
(***************************************************************************)
EXTENDS Integers, Sequences, FiniteSets, TLC

\* ------------------------------------------------------------------------
\* Characters and string helpers
\* ------------------------------------------------------------------------

\* Code units named in the source or used in the inputs.
Ch == [ tab |-> 9, lf |-> 10, cr |-> 13, sp |-> 32, bang |-> 33, dq |-> 34,
        sq |-> 39, comma |-> 44, dot |-> 46, qm |-> 63,
        H |-> 72, W |-> 87, a |-> 97, d |-> 100, e |-> 101, i |-> 105,
        l |-> 108, o |-> 111, r |-> 114,
        ldq |-> 8220, rdq |-> 8221, lsq |-> 8216, rsq |-> 8217,
        ideoSp |-> 12288, fwDot |-> 12290, fwBang |-> 65281, fwQm |-> 65311 ]

\* What the regular expression class \s and String.prototype.trim treat as
\* white space (ECMAScript WhiteSpace and LineTerminator).
WhiteSpace == {9, 10, 11, 12, 13, 32, 160, 5760} \cup (8192..8202)
              \cup {8232, 8233, 8239, 8287, 12288, 65279}

Min(S) == CHOOSE x \in S : \A y \in S : x <= y
Max(S) == CHOOSE x \in S : \A y \in S : x >= y

\* s.substring(0, n)
Substring0(s, n) == SubSeq(s, 1, IF n < Len(s) THEN n ELSE Len(s))

\* s.trim()
Trim(s) ==
    LET keep == {k \in 1..Len(s) : s[k] \notin WhiteSpace}
    IN  IF keep = {} THEN <<>> ELSE SubSeq(s, Min(keep), Max(keep))

\* s.replace(/[class]/g, c) for a one-character replacement c
ReplaceClass(s, class, c) ==
    [k \in 1..Len(s) |-> IF s[k] \in class THEN c ELSE s[k]]

\* s.replace(/\s+/g, ' '): every maximal run of white space becomes one space
RECURSIVE ReplaceRuns(_)
ReplaceRuns(s) ==
    IF s = <<>> THEN <<>>
    ELSE IF Head(s) \in WhiteSpace
         THEN IF Len(s) > 1 /\ s[2] \in WhiteSpace
              THEN ReplaceRuns(Tail(s))
              ELSE <<Ch.sp>> \o ReplaceRuns(Tail(s))
         ELSE <<Head(s)>> \o ReplaceRuns(Tail(s))

\* ------------------------------------------------------------------------
\* fetchDailyQuote: validation, sanitising, truncation
\* ------------------------------------------------------------------------

maxLength == 60
cutPoints == {Ch.dot, Ch.bang, Ch.qm, Ch.fwDot, Ch.fwBang, Ch.fwQm}

\* The character classes of the two quote-mark replacements, as they stand
\* in the source file: both hold the straight mark only.
DoubleQuoteClass == {Ch.dq}
SingleQuoteClass == {Ch.sq}

\* IsEmptyBody with the trim() test left out: only !quote
IsEmptyBodyNoTrim(quote) == quote = <<>>

\* !quote || quote.trim().length === 0
IsEmptyBody(quote) == quote = <<>> \/ Len(Trim(quote)) = 0

\* Sanitize with replace(/^ +| +$/g, '') in the place of trim(): only spaces
\* are taken off the two ends
SanitizeTrimsSpacesOnly(quote) ==
    LET keep == {k \in 1..Len(quote) : quote[k] # Ch.sp}
        cut  == IF keep = {} THEN <<>> ELSE SubSeq(quote, Min(keep), Max(keep))
    IN  ReplaceClass(
            ReplaceClass(
                ReplaceRuns(ReplaceClass(cut, {Ch.cr, Ch.lf, Ch.tab}, Ch.sp)),
                DoubleQuoteClass, Ch.dq),
            SingleQuoteClass, Ch.sq)

\* Sanitize with the replace(/\s+/g, ' ') step left out
SanitizeNoCollapse(quote) ==
    ReplaceClass(
        ReplaceClass(
            ReplaceClass(Trim(quote), {Ch.cr, Ch.lf, Ch.tab}, Ch.sp),
            DoubleQuoteClass, Ch.dq),
        SingleQuoteClass, Ch.sq)

\* let cleanQuote = quote.trim().replace(...).replace(...).replace(...).replace(...)
Sanitize(quote) ==
    ReplaceClass(
        ReplaceClass(
            ReplaceRuns(ReplaceClass(Trim(quote), {Ch.cr, Ch.lf, Ch.tab}, Ch.sp)),
            DoubleQuoteClass, Ch.dq),
        SingleQuoteClass, Ch.sq)

\* CutIndex with the break left out of the loop: the last hit wins
CutIndexLast(clean) ==
    LET hits == {i \in (maxLength - 10)..(maxLength - 1) :
                    i + 1 <= Len(clean) /\ clean[i + 1] \in cutPoints}
    IN  IF hits = {} THEN -1 ELSE Max(hits) + 1

\* for (let i = maxLength - 10; i < maxLength; i++) if (cutPoints.includes(cleanQuote[i]))
\* the source index i is 0-based: cleanQuote[i] is the model's clean[i+1].
\* The result is cutIndex: i + 1 for the first hit, -1 when there is none.
CutIndex(clean) ==
    LET hits == {i \in (maxLength - 10)..(maxLength - 1) :
                    i + 1 <= Len(clean) /\ clean[i + 1] \in cutPoints}
    IN  IF hits = {} THEN -1 ELSE Min(hits) + 1

\* Truncate with the hard cut at maxLength instead of maxLength - 3
TruncateNoRoom(clean) ==
    IF Len(clean) > maxLength
    THEN IF CutIndex(clean) > 0
         THEN Substring0(clean, CutIndex(clean))
         ELSE Substring0(clean, maxLength) \o <<Ch.dot, Ch.dot, Ch.dot>>
    ELSE clean

\* Truncate with the '...' left out of the hard cut
TruncateNoEllipsis(clean) ==
    IF Len(clean) > maxLength
    THEN IF CutIndex(clean) > 0
         THEN Substring0(clean, CutIndex(clean))
         ELSE Substring0(clean, maxLength - 3)
    ELSE clean

\* if (cleanQuote.length > maxLength) { ... }
Truncate(clean) ==
    IF Len(clean) > maxLength
    THEN IF CutIndex(clean) > 0
         THEN Substring0(clean, CutIndex(clean))
         ELSE Substring0(clean, maxLength - 3) \o <<Ch.dot, Ch.dot, Ch.dot>>
    ELSE clean


\* ------------------------------------------------------------------------
\* The page: target element, orchestrations, typewriter sessions
\* ------------------------------------------------------------------------

VARIABLES
    elementPresent, \* document.querySelector('.hero-subtitle') finds the element
    initPc,         \* position of AnimationSystem.init: "start", "advanced", "done"
    element,        \* the .hero-subtitle element: textContent, classList, style.borderRight
    orchs,          \* one record per call of setupTypewriterEffect (its closure and timers)
    sessions,       \* one record per call of startTypewriterAnimation (its closure and timers)
    flashTimers,    \* number of pending 80 ms timers that clear the cursor flash
    uncaught,       \* history: number of exceptions that reached the event loop
    quote,          \* fetchDailyQuote on its own: the response body
    cleanQuote,     \* fetchDailyQuote on its own: the local cleanQuote
    qpc,            \* fetchDailyQuote on its own: "body", "clean", "returned", "thrown", "off"
    call,           \* one call of fetchDailyQuote from its first line: see NewCall
    music,          \* MusicManager and its audio element: see NewMusic
    particleSys,    \* AnimationSystem.particles and the particles container: see NewParticles
    themeSys        \* ThemeManager, the data-theme attribute, localStorage: see ThemeOff

typewriterVars == <<elementPresent, initPc, element, orchs, sessions, flashTimers,
                    uncaught>>
widgetVars == <<music, particleSys, themeSys>>
pageVars   == <<typewriterVars, widgetVars>>
quoteVars  == <<quote, cleanQuote, qpc, call>>
vars       == <<elementPresent, initPc, element, orchs, sessions, flashTimers, uncaught,
                quote, cleanQuote, qpc, call, music, particleSys, themeSys>>

\* The three string literals of setupTypewriterEffect (lines 1092, 1117, 1119),
\* as UTF-16 code units.
LoadingText == <<33719, 21462, 27599, 26085, 19968, 35328, 20013>>
FailText    == <<33719, 21462, 22833, 36133, 65292, 20351, 29992, 40664, 35748,
                 20869, 23481, 46, 46, 46>>
defaultText == <<20320, 25152, 28909, 29233, 30340, 65292, 23601, 26159, 20320,
                 30340, 29983, 27963, 8212, 8212, 38472, 30591>>

\* '.'.repeat(n)
Dots(n) == [k \in 1..n |-> Ch.dot]

Cursor   == "2px solid var(--accent-color)"
NoBorder == "none"

\* A timer handle: armed with the delay (ms) it was scheduled with, or not pending.
Timer(ms) == [armed |-> TRUE, delay |-> ms]
NoTimer   == [armed |-> FALSE, delay |-> 0]

\* Delays of the source, in milliseconds.
LoadingPeriod  == 500
FetchDelay     == 3000
FetchTimeoutMs == 5000
FallbackDelay  == 1000
BlinkPeriod    == 500
BlinkStopMs    == 30000
BlinkCeiling   == 120

\* Bounds of the model.
MaxFlash == 1      \* 80 ms flash timers pending at the same time
MaxBlink == 2      \* runs of blink() followed per session on the page

\* Response bodies the network may deliver on the page: "", " ", "Hi!", " a\n"
PageBodies == { <<>>, <<Ch.sp>>, <<Ch.H, Ch.i, Ch.bang>>, <<Ch.sp, Ch.a, Ch.lf>> }

\* ------------------------------------------------------------------------
\* Renderer: startTypewriterAnimation, typeNextChar, startCursorBlink
\* ------------------------------------------------------------------------

\* The delay typeNextChar picks after revealing char, as the range lo <= delay < hi
\* it lies in: Math.random() * 30 + 70 is any value of [70, 100), a fixed delay d
\* is the range [d, d + 1).
Delay(char) ==
    IF char = Ch.sp THEN [lo |-> 50, hi |-> 51]
    ELSE IF char \in {65292, 12290, 65281, 65311, 12289, 65307, 65306}
         THEN [lo |-> 200, hi |-> 201]
    ELSE IF char \in (65..90) \cup (97..122) THEN [lo |-> 70, hi |-> 100]
    ELSE [lo |-> 90, hi |-> 130]

\* startCursorBlink(element): the closure's variables and its two timers
StartCursorBlink(sess) ==
    [sess EXCEPT !.isVisible = TRUE, !.blinkCount = 0,
                 !.blinkInterval = Timer(BlinkPeriod), !.blinkStop = Timer(BlinkStopMs)]

\* TypeNextChar with element.textContent += char in the place of the
\* assignment of text.substring(0, currentIndex + 1)
TypeNextCharAppends(el, sess, flash) ==
    IF sess.currentIndex < Len(sess.text)
    THEN [el |-> [el EXCEPT !.textContent = @ \o <<sess.text[sess.currentIndex + 1]>>,
                            !.borderRight = IF flash THEN Cursor ELSE @],
          sess |-> [sess EXCEPT !.currentIndex = @ + 1,
                                !.revealTimer = Timer(Delay(sess.text[sess.currentIndex + 1])),
                                !.revealTimers = @ + 1],
          flashes |-> IF flash THEN 1 ELSE 0,
          thrown |-> FALSE]
    ELSE [el |-> [el EXCEPT !.classList = @ \ {"typing"}],
          sess |-> StartCursorBlink([sess EXCEPT !.revealTimer = NoTimer]),
          flashes |-> 0,
          thrown |-> TRUE]

\* TypeNextChar with text.substring(0, currentIndex) in the place of
\* text.substring(0, currentIndex + 1)
TypeNextCharOffByOne(el, sess, flash) ==
    IF sess.currentIndex < Len(sess.text)
    THEN [el |-> [el EXCEPT !.textContent = Substring0(sess.text, sess.currentIndex),
                            !.borderRight = IF flash THEN Cursor ELSE @],
          sess |-> [sess EXCEPT !.currentIndex = @ + 1,
                                !.revealTimer = Timer(Delay(sess.text[sess.currentIndex + 1])),
                                !.revealTimers = @ + 1],
          flashes |-> IF flash THEN 1 ELSE 0,
          thrown |-> FALSE]
    ELSE [el |-> [el EXCEPT !.classList = @ \ {"typing"}],
          sess |-> StartCursorBlink([sess EXCEPT !.revealTimer = NoTimer]),
          flashes |-> 0,
          thrown |-> TRUE]

\* TypeNextChar with a second setTimeout(typeNextChar, delay) in the branch of
\* the cursor flash
TypeNextCharSchedulesTwice(el, sess, flash) ==
    IF sess.currentIndex < Len(sess.text)
    THEN [el |-> [el EXCEPT !.textContent = Substring0(sess.text, sess.currentIndex + 1),
                            !.borderRight = IF flash THEN Cursor ELSE @],
          sess |-> [sess EXCEPT !.currentIndex = @ + 1,
                                !.revealTimer = Timer(Delay(sess.text[sess.currentIndex + 1])),
                                !.revealTimers = IF flash THEN @ + 2 ELSE @ + 1],
          flashes |-> IF flash THEN 1 ELSE 0,
          thrown |-> FALSE]
    ELSE [el |-> [el EXCEPT !.classList = @ \ {"typing"}],
          sess |-> StartCursorBlink([sess EXCEPT !.revealTimer = NoTimer]),
          flashes |-> 0,
          thrown |-> TRUE]

\* One run of typeNextChar for session record sess on element record el.
\* flash: the outcome of Math.random() > 0.8; flashes: the 80 ms timers the run set.
\* thrown: the run ended in an exception (this.showNotification is not a
\* method of AnimationSystem, so the call in the completion branch throws).
TypeNextChar(el, sess, flash) ==
    IF sess.currentIndex < Len(sess.text)
    THEN [el |-> [el EXCEPT !.textContent = Substring0(sess.text, sess.currentIndex + 1),
                            !.borderRight = IF flash THEN Cursor ELSE @],
          sess |-> [sess EXCEPT !.currentIndex = @ + 1,
                                !.revealTimer = Timer(Delay(sess.text[sess.currentIndex + 1])),
                                !.revealTimers = @ + 1],
          flashes |-> IF flash THEN 1 ELSE 0,
          thrown |-> FALSE]
    ELSE [el |-> [el EXCEPT !.classList = @ \ {"typing"}],
          sess |-> StartCursorBlink([sess EXCEPT !.revealTimer = NoTimer]),
          flashes |-> 0,
          thrown |-> TRUE]

\* The outcomes of Math.random() > 0.8 the model follows for sess
FlashChoices(sess) ==
    IF sess.currentIndex < Len(sess.text)
    THEN {f \in BOOLEAN : f => flashTimers < MaxFlash}
    ELSE {FALSE}

NewSession(o, text) ==
    [by |-> o, text |-> text, currentIndex |-> 0, revealTimer |-> NoTimer,
     revealTimers |-> 0,   \* number of pending setTimeout(typeNextChar, delay) timers
     isVisible |-> TRUE, blinkCount |-> 0,
     blinkInterval |-> NoTimer, blinkStop |-> NoTimer]

\* startTypewriterAnimation(element, text), called by orchestration o: the
\* element is reset and typeNextChar runs once before the call returns.
StartTypewriterAnimation(el, o, text, flash) ==
    TypeNextChar([el EXCEPT !.textContent = <<>>,
                            !.classList = @ \cup {"typing"},
                            !.borderRight = NoBorder],
                 NewSession(o, text), flash)


\* ------------------------------------------------------------------------
\* Orchestration: init, setupTypewriterEffect, fetchDailyQuote on the page
\* ------------------------------------------------------------------------

NewOrch ==
    [loadingInterval |-> Timer(LoadingPeriod), loadingDots |-> 0,
     fetchDelay |-> Timer(FetchDelay),
     pc |-> "idle",            \* fetchDailyQuote: idle, awaitFetch, awaitText, returned, thrown
     timeoutId |-> NoTimer,    \* the 5 s timer of fetchDailyQuote
     timedOut |-> FALSE,       \* the 5 s timer has fired
     aborted |-> FALSE,        \* controller.signal.aborted
     net |-> "none",           \* the request: none, inflight, open (body streaming), closed
     fallbackTimer |-> NoTimer]

\* setupTypewriterEffect(): returns when the element is missing; otherwise shows
\* the loading state and creates the interval and the 3 s timer.
SetupTypewriterEffect ==
    IF ~elementPresent
    THEN UNCHANGED <<element, orchs>>
    ELSE /\ element' = [element EXCEPT !.textContent = LoadingText,
                                       !.classList = @ \cup {"loading"},
                                       !.borderRight = Cursor]
         /\ orchs' = Append(orchs, NewOrch)

\* init(): ... this.setupAdvancedEffects() ..., whose first call is
\* this.setupTypewriterEffect()
InitSetupAdvancedEffects ==
    /\ initPc = "start"
    /\ initPc' = "advanced"
    /\ SetupTypewriterEffect
    /\ UNCHANGED <<elementPresent, sessions, flashTimers, uncaught, quoteVars, widgetVars>>

\* init(): ... this.setupTypewriterEffect() ...
InitSetupTypewriterEffect ==
    /\ initPc = "advanced"
    /\ initPc' = "done"
    /\ SetupTypewriterEffect
    /\ UNCHANGED <<elementPresent, sessions, flashTimers, uncaught, quoteVars, widgetVars>>

Running(o) == initPc = "done" /\ o \in DOMAIN orchs

\* The callback of loadingInterval
LoadingTick(o) ==
    /\ Running(o)
    /\ orchs[o].loadingInterval.armed
    /\ LET n == (orchs[o].loadingDots + 1) % 4
       IN  /\ orchs' = [orchs EXCEPT ![o].loadingDots = n]
           /\ element' = [element EXCEPT !.textContent = LoadingText \o Dots(n)]
    /\ UNCHANGED <<elementPresent, initPc, sessions, flashTimers, uncaught, quoteVars, widgetVars>>

\* The callback of the 3 s timer calls fetchDailyQuote, which runs up to its
\* first await: the 5 s timer is armed and the request is sent.
FetchStart(o) ==
    /\ Running(o)
    /\ orchs[o].fetchDelay.armed
    /\ orchs' = [orchs EXCEPT ![o].fetchDelay = NoTimer,
                              ![o].pc = "awaitFetch",
                              ![o].timeoutId = Timer(FetchTimeoutMs),
                              ![o].net = "inflight"]
    /\ UNCHANGED <<elementPresent, initPc, element, sessions, flashTimers, uncaught, quoteVars, widgetVars>>

\* clearInterval(loadingInterval). Only the interval's callback reads
\* loadingDots, so once the interval is cleared its value is dead: the model
\* forgets it.
ClearLoading(orch) == [orch EXCEPT !.loadingInterval = NoTimer, !.loadingDots = 0]

\* Caught with the clearInterval(loadingInterval) of the .catch handler left out
CaughtKeepsLoading(orch, net) ==
    [orch EXCEPT !.pc = "thrown", !.timeoutId = NoTimer, !.net = net,
                 !.fallbackTimer = Timer(FallbackDelay)]

\* fetchDailyQuote throws (its catch block clears the 5 s timer and rethrows)
\* and the .catch handler of setupTypewriterEffect runs: the orchestration
\* record after it. net is the state the request is left in.
Caught(orch, net) ==
    [ClearLoading(orch) EXCEPT !.pc = "thrown", !.timeoutId = NoTimer, !.net = net,
                               !.fallbackTimer = Timer(FallbackDelay)]

\* The .catch handler's writes to the element
CaughtElement(el) ==
    [el EXCEPT !.classList = @ \ {"loading"}, !.textContent = FailText]

Fail(o, orch, net) ==
    /\ orchs' = [orchs EXCEPT ![o] = Caught(orch, net)]
    /\ element' = CaughtElement(element)
    /\ UNCHANGED <<sessions, flashTimers, uncaught>>

\* Abort with the call of controller.abort() left out
AbortOmitted(orch) == orch

\* controller.abort() in the callback of the 5 s timer: the signal is aborted
Abort(orch) == [orch EXCEPT !.aborted = TRUE]

\* The callback of the 5 s timer. A fetch that is still pending rejects when
\* its signal aborts, and fetchDailyQuote throws.
FetchTimeout(o) ==
    /\ Running(o)
    /\ orchs[o].timeoutId.armed
    /\ LET orch == Abort([orchs[o] EXCEPT !.timeoutId = NoTimer, !.timedOut = TRUE])
       IN  IF orch.aborted /\ orch.pc = "awaitFetch"
           THEN Fail(o, orch, orch.net)
           ELSE /\ orchs' = [orchs EXCEPT ![o] = orch]
                /\ UNCHANGED <<element, sessions, flashTimers, uncaught>>
    /\ UNCHANGED <<elementPresent, initPc, quoteVars, widgetVars>>

\* The request fails before any response: fetch rejects
NetworkError(o) ==
    /\ Running(o)
    /\ orchs[o].net = "inflight" /\ ~orchs[o].aborted
    /\ orchs[o].pc = "awaitFetch"
    /\ Fail(o, orchs[o], "closed")
    /\ UNCHANGED <<elementPresent, initPc, quoteVars, widgetVars>>

\* The response (status line and headers) arrives: fetch resolves,
\* clearTimeout(timeoutId), then the response.ok test.
Response(o, ok) ==
    /\ Running(o)
    /\ orchs[o].net = "inflight" /\ ~orchs[o].aborted
    /\ orchs[o].pc = "awaitFetch"
    /\ IF ok
       THEN /\ orchs' = [orchs EXCEPT ![o].timeoutId = NoTimer,
                                      ![o].pc = "awaitText", ![o].net = "open"]
            /\ UNCHANGED <<element, sessions, flashTimers, uncaught>>
       ELSE Fail(o, orchs[o], "closed")
    /\ UNCHANGED <<elementPresent, initPc, quoteVars, widgetVars>>

\* The response of an aborted request arrives: the browser drops it
LateResponse(o) ==
    /\ Running(o)
    /\ orchs[o].net = "inflight" /\ orchs[o].aborted
    /\ orchs' = [orchs EXCEPT ![o].net = "closed"]
    /\ UNCHANGED <<elementPresent, initPc, element, sessions, flashTimers, uncaught, quoteVars, widgetVars>>

\* The .then handler of setupTypewriterEffect with the quote fetchDailyQuote
\* returned; an exception of startTypewriterAnimation goes to the .catch handler.
Then(o, orch, text, flash) ==
    LET el0 == [element EXCEPT !.classList = @ \ {"loading"}]
        r   == StartTypewriterAnimation(el0, o, text, flash)
    IN  /\ sessions' = Append(sessions, r.sess)
        /\ flashTimers' = flashTimers + r.flashes
        /\ uncaught' = uncaught
        /\ IF r.thrown
           THEN /\ orchs' = [orchs EXCEPT ![o] =
                                [Caught(orch, "closed") EXCEPT !.pc = "returned"]]
                /\ element' = CaughtElement(r.el)
           ELSE /\ orchs' = [orchs EXCEPT ![o] =
                                [ClearLoading(orch) EXCEPT !.pc = "returned",
                                                           !.net = "closed"]]
                /\ element' = r.el

\* The body arrives: response.text() resolves with it; validation, sanitising,
\* truncation, return; or the throw for an empty body.
Body(o, body) ==
    /\ Running(o)
    /\ orchs[o].pc = "awaitText" /\ orchs[o].net = "open"
    /\ IF IsEmptyBody(body)
       THEN Fail(o, orchs[o], "closed")
       ELSE LET text == Truncate(Sanitize(body))
            IN  \E flash \in FlashChoices(NewSession(o, text)) :
                   Then(o, orchs[o], text, flash)
    /\ UNCHANGED <<elementPresent, initPc, quoteVars, widgetVars>>

\* The connection breaks while the body is read: response.text() rejects
BodyError(o) ==
    /\ Running(o)
    /\ orchs[o].pc = "awaitText" /\ orchs[o].net = "open"
    /\ Fail(o, orchs[o], "closed")
    /\ UNCHANGED <<elementPresent, initPc, quoteVars, widgetVars>>

\* The callback of the 1 s timer of the .catch handler
Fallback(o) ==
    /\ Running(o)
    /\ orchs[o].fallbackTimer.armed
    /\ \E flash \in FlashChoices(NewSession(o, defaultText)) :
          LET r == StartTypewriterAnimation(element, o, defaultText, flash)
          IN  /\ sessions' = Append(sessions, r.sess)
              /\ flashTimers' = flashTimers + r.flashes
              /\ element' = r.el
              /\ uncaught' = IF r.thrown THEN uncaught + 1 ELSE uncaught
    /\ orchs' = [orchs EXCEPT ![o].fallbackTimer = NoTimer]
    /\ UNCHANGED <<elementPresent, initPc, quoteVars, widgetVars>>


\* ------------------------------------------------------------------------
\* Timer callbacks of a typewriter session
\* ------------------------------------------------------------------------

Live(s) == initPc = "done" /\ s \in DOMAIN sessions

\* setTimeout(typeNextChar, delay) fires
RevealTick(s) ==
    /\ Live(s)
    /\ sessions[s].revealTimer.armed
    /\ \E flash \in FlashChoices(sessions[s]) :
          LET r == TypeNextChar(element, [sessions[s] EXCEPT !.revealTimer = NoTimer,
                                                             !.revealTimers = @ - 1],
                                flash)
          IN  /\ sessions' = [sessions EXCEPT ![s] = r.sess]
              /\ flashTimers' = flashTimers + r.flashes
              /\ element' = r.el
              /\ uncaught' = IF r.thrown THEN uncaught + 1 ELSE uncaught
    /\ UNCHANGED <<elementPresent, initPc, orchs, quoteVars, widgetVars>>

\* One of the 80 ms timers of a cursor flash fires. Their callbacks are the
\* same for every session (element.style.borderRight = 'none').
FlashOff ==
    /\ initPc = "done"
    /\ flashTimers > 0
    /\ flashTimers' = flashTimers - 1
    /\ element' = [element EXCEPT !.borderRight = NoBorder]
    /\ UNCHANGED <<elementPresent, initPc, orchs, sessions, uncaught, quoteVars, widgetVars>>

\* blink(), the callback of blinkInterval. The k-th run is due BlinkPeriod * k
\* after startCursorBlink and the stop timer BlinkStopMs after it, and timers
\* run in the order they are due: no run is due after the stop timer's time.
\* cap bounds the runs the model follows.
Blink(s, cap) ==
    /\ Live(s)
    /\ sessions[s].blinkInterval.armed
    /\ (sessions[s].blinkCount + 1) * BlinkPeriod <= BlinkStopMs
    /\ sessions[s].blinkCount < cap
    /\ LET n == sessions[s].blinkCount + 1
       IN  /\ sessions' = [sessions EXCEPT ![s].isVisible = ~@, ![s].blinkCount = n]
           /\ element' = [element EXCEPT !.borderRight =
                             IF n > BlinkCeiling THEN NoBorder
                             ELSE IF sessions[s].isVisible THEN Cursor ELSE NoBorder]
    /\ UNCHANGED <<elementPresent, initPc, orchs, flashTimers, uncaught, quoteVars, widgetVars>>

\* BlinkStop with the element.style.borderRight = 'none' left out
BlinkStopKeepsBorder(s) ==
    /\ Live(s)
    /\ sessions[s].blinkStop.armed
    /\ sessions' = [sessions EXCEPT ![s].blinkInterval = NoTimer, ![s].blinkStop = NoTimer]
    /\ UNCHANGED <<elementPresent, initPc, element, orchs, flashTimers, uncaught, quoteVars, widgetVars>>

\* BlinkStop with the clearInterval(blinkInterval) left out
BlinkStopKeepsInterval(s) ==
    /\ Live(s)
    /\ sessions[s].blinkStop.armed
    /\ sessions' = [sessions EXCEPT ![s].blinkStop = NoTimer]
    /\ element' = [element EXCEPT !.borderRight = NoBorder]
    /\ UNCHANGED <<elementPresent, initPc, orchs, flashTimers, uncaught, quoteVars, widgetVars>>

\* The callback of the 30 s timer of startCursorBlink
BlinkStop(s) ==
    /\ Live(s)
    /\ sessions[s].blinkStop.armed
    /\ sessions' = [sessions EXCEPT ![s].blinkInterval = NoTimer, ![s].blinkStop = NoTimer]
    /\ element' = [element EXCEPT !.borderRight = NoBorder]
    /\ UNCHANGED <<elementPresent, initPc, orchs, flashTimers, uncaught, quoteVars, widgetVars>>

\* ------------------------------------------------------------------------
\* The page's specification
\* ------------------------------------------------------------------------

\* The other managers of the page are followed on their own, in SpecMusic,
\* SpecParticles and SpecTheme; elsewhere their variables rest.
MusicOff     == music = [pc |-> "off"]
ParticlesOff == particleSys = [pc |-> "off"]
ThemeOff     == themeSys = [pc |-> "off"]
WidgetsOff   == MusicOff /\ ParticlesOff /\ ThemeOff

\* No call of fetchDailyQuote is followed on its own
CallOff ==
    [pc |-> "off", requests |-> <<>>, timeoutId |-> NoTimer, aborted |-> FALSE,
     net |-> "none", status |-> 0, textCalls |-> 0, error |-> <<>>, result |-> <<>>]

QuoteOff == quote = <<>> /\ cleanQuote = <<>> /\ qpc = "off" /\ call = CallOff

\* DOMContentLoaded, before new AnimationSystem()
PageInit ==
    /\ WidgetsOff
    /\ elementPresent \in BOOLEAN
    /\ initPc = "start"
    /\ element = [textContent |-> <<>>, classList |-> {}, borderRight |-> ""]
    /\ orchs = <<>>
    /\ sessions = <<>>
    /\ flashTimers = 0
    /\ uncaught = 0

Init == PageInit /\ QuoteOff

Next ==
    \/ InitSetupAdvancedEffects
    \/ InitSetupTypewriterEffect
    \/ \E o \in DOMAIN orchs : LoadingTick(o)
    \/ \E o \in DOMAIN orchs : FetchStart(o)
    \/ \E o \in DOMAIN orchs : FetchTimeout(o)
    \/ \E o \in DOMAIN orchs : NetworkError(o)
    \/ \E o \in DOMAIN orchs, ok \in BOOLEAN : Response(o, ok)
    \/ \E o \in DOMAIN orchs : LateResponse(o)
    \/ \E o \in DOMAIN orchs, body \in PageBodies : Body(o, body)
    \/ \E o \in DOMAIN orchs : BodyError(o)
    \/ \E o \in DOMAIN orchs : Fallback(o)
    \/ \E s \in DOMAIN sessions : RevealTick(s)
    \/ FlashOff
    \/ \E s \in DOMAIN sessions : Blink(s, MaxBlink)
    \/ \E s \in DOMAIN sessions : BlinkStop(s)

Spec == Init /\ [][Next]_vars


\* ------------------------------------------------------------------------
\* fetchDailyQuote on its own: one response body through validation,
\* sanitising and truncation
\* ------------------------------------------------------------------------

\* Bounds of the response bodies.
MaxShortLen == 3   \* bodies of every length up to this one over ShortAlphabet
MaxOver     == 2   \* long bodies are up to this much longer than maxLength
Edge        == 2   \* marks are placed up to this far outside positions [50, 60)
MaxLead     == 1   \* white space characters in front of a long body

ShortAlphabet == {Ch.a, Ch.sp, Ch.lf, Ch.tab, Ch.cr, Ch.ideoSp, Ch.ldq, Ch.rsq}

RECURSIVE SeqsUpTo(_, _)
SeqsUpTo(S, n) ==
    IF n = 0 THEN {<<>>}
    ELSE LET shorter == SeqsUpTo(S, n - 1)
         IN  shorter \cup {Append(t, c) : t \in {u \in shorter : Len(u) = n - 1}, c \in S}

\* "Hello\n\nWorld"
HelloWorld == <<Ch.H, Ch.e, Ch.l, Ch.l, Ch.o, Ch.lf, Ch.lf,
                Ch.W, Ch.o, Ch.r, Ch.l, Ch.d>>

\* A body of len letters behind lead line feeds, with character c1 at 0-based
\* position p1, a full-width '!' at position p2 and, with dbl, two spaces
\* instead of the letter at position 10.
LongBody(len, lead, dbl, p1, c1, p2) ==
    [k \in 1..lead |-> Ch.lf]
    \o [k \in 1..10 |-> Ch.a]
    \o (IF dbl THEN <<Ch.sp, Ch.sp>> ELSE <<Ch.a>>)
    \o [k \in 1..(len - 11) |->
          IF k + 10 = p1 THEN c1 ELSE IF k + 10 = p2 THEN Ch.fwBang ELSE Ch.a]

MarkPositions == (maxLength - 10 - Edge)..(maxLength - 1 + Edge)

LongBodies ==
    { LongBody(len, lead, dbl, p1, c1, p2) :
        len \in (maxLength - 1)..(maxLength + MaxOver),
        lead \in 0..MaxLead, dbl \in BOOLEAN,
        p1 \in MarkPositions, c1 \in {Ch.dot, Ch.fwQm, Ch.comma, Ch.tab},
        p2 \in MarkPositions }

Bodies == SeqsUpTo(ShortAlphabet, MaxShortLen) \cup {HelloWorld} \cup LongBodies

\* const quote = await response.text(); the emptiness test; the sanitising
QuoteSanitize ==
    /\ qpc = "body"
    /\ IF IsEmptyBody(quote)
       THEN qpc' = "thrown" /\ UNCHANGED cleanQuote
       ELSE qpc' = "clean" /\ cleanQuote' = Sanitize(quote)
    /\ UNCHANGED <<quote, call, pageVars>>

\* The length limit and return cleanQuote
QuoteTruncate ==
    /\ qpc = "clean"
    /\ cleanQuote' = Truncate(cleanQuote)
    /\ qpc' = "returned"
    /\ UNCHANGED <<quote, call, pageVars>>

TypewriterOff ==
    /\ elementPresent = FALSE
    /\ initPc = "off"
    /\ element = [textContent |-> <<>>, classList |-> {}, borderRight |-> ""]
    /\ orchs = <<>>
    /\ sessions = <<>>
    /\ flashTimers = 0
    /\ uncaught = 0

PageOff == TypewriterOff /\ WidgetsOff

QuoteInit ==
    quote \in Bodies /\ cleanQuote = <<>> /\ qpc = "body" /\ call = CallOff /\ PageOff

QuoteNext == QuoteSanitize \/ QuoteTruncate

SpecQuote == QuoteInit /\ [][QuoteNext]_vars


\* ------------------------------------------------------------------------
\* fetchDailyQuote on its own: one call from its first line to its settling
\* ------------------------------------------------------------------------

\* The five URLs of apiConfigs differ in the category letter of the query
\* (?c=d, ?c=i, ?c=k, ?c=f, ?c=e) only: a URL is modelled by that letter.
apiConfigs == <<100, 105, 107, 102, 101>>

\* response.status values followed, and response.statusText values ("" as with
\* HTTP/2, "Not Found")
Statuses    == {200, 204, 299, 304, 403, 404, 500, 503}
StatusTexts == {<<>>, <<78, 111, 116, 32, 70, 111, 117, 110, 100>>}

\* response.ok
Ok(status) == status \in 200..299

\* String(n) for a natural number n
RECURSIVE Decimal(_)
Decimal(n) == IF n < 10 THEN <<48 + n>> ELSE Decimal(n \div 10) \o <<48 + (n % 10)>>

\* HttpMessage with a fixed text: 'HTTP error'
HttpMessageNoStatus(status, statusText) ==
    <<72, 84, 84, 80, 32, 101, 114, 114, 111, 114>>

\* `HTTP ${response.status}: ${response.statusText}`
HttpMessage(status, statusText) ==
    <<72, 84, 84, 80, 32>> \o Decimal(status) \o <<58, 32>> \o statusText

\* 'API...' : the message of the error thrown for an empty body (line 1175)
EmptyMessage == <<65, 80, 73, 36820, 22238, 20869, 23481, 20026, 31354>>

\* The message of the exception a rejected fetch or response.text() carries is
\* the browser's; the model writes the exception's name for it.
AbortMessage   == <<65, 98, 111, 114, 116, 69, 114, 114, 111, 114>>
NetworkMessage == <<84, 121, 112, 101, 69, 114, 114, 111, 114>>

\* The state of a call before its first line
NewCall ==
    [pc |-> "start",        \* start, awaitFetch, awaitText, returned, thrown
     requests |-> <<>>,     \* the URLs fetch was called with, in order
     timeoutId |-> NoTimer, \* the 5 s timer
     aborted |-> FALSE,     \* controller.signal.aborted
     net |-> "none",        \* the request: none, inflight, open, closed
     status |-> 0,          \* response.status, 0 before a response
     textCalls |-> 0,       \* calls of response.text()
     error |-> <<>>,        \* message of the Error the call threw
     result |-> <<>>]       \* the string the call returned

\* CallCatch as a retry: the request is sent again to the next URL
CallCatchRetries(c, message) ==
    [c EXCEPT !.pc = "awaitFetch", !.timeoutId = Timer(FetchTimeoutMs),
              !.aborted = FALSE, !.net = "inflight", !.status = 0,
              !.requests = Append(@, apiConfigs[(Len(@) % Len(apiConfigs)) + 1])]

\* catch (error) { clearTimeout(timeoutId); ...; throw new Error(error.message) }
\* Every exception that gets here is an Error (the ones thrown in the try
\* block, the TypeError and the AbortError DOMException of fetch).
CallCatch(c, message) ==
    [c EXCEPT !.pc = "thrown", !.timeoutId = NoTimer, !.error = message]

\* Lines 1133-1163: a URL is picked (k is Math.floor(Math.random() * 5)), the
\* 5 s timer is armed, fetch is called.
CallStart(k) ==
    /\ call.pc = "start"
    /\ call' = [call EXCEPT !.pc = "awaitFetch",
                            !.requests = Append(@, apiConfigs[k + 1]),
                            !.timeoutId = Timer(FetchTimeoutMs),
                            !.net = "inflight"]
    /\ UNCHANGED <<quote, cleanQuote, qpc, pageVars>>

\* The callback of the 5 s timer; the pending fetch rejects
CallTimeout ==
    /\ call.timeoutId.armed
    /\ LET c == Abort([call EXCEPT !.timeoutId = NoTimer])
       IN  call' = IF c.aborted /\ c.pc = "awaitFetch"
                   THEN CallCatch(c, AbortMessage) ELSE c
    /\ UNCHANGED <<quote, cleanQuote, qpc, pageVars>>

\* The request fails before any response: fetch rejects
CallNetworkError ==
    /\ call.pc = "awaitFetch" /\ call.net = "inflight" /\ ~call.aborted
    /\ call' = CallCatch([call EXCEPT !.net = "closed"], NetworkMessage)
    /\ UNCHANGED <<quote, cleanQuote, qpc, pageVars>>

\* The response arrives: clearTimeout, the response.ok test, then either the
\* throw or the call of response.text()
CallResponse(status, statusText) ==
    /\ call.pc = "awaitFetch" /\ call.net = "inflight" /\ ~call.aborted
    /\ LET c == [call EXCEPT !.timeoutId = NoTimer, !.status = status]
       IN  call' = IF ~Ok(status)
                   THEN CallCatch([c EXCEPT !.net = "closed"],
                                  HttpMessage(status, statusText))
                   ELSE [c EXCEPT !.pc = "awaitText", !.net = "open",
                                  !.textCalls = @ + 1]
    /\ UNCHANGED <<quote, cleanQuote, qpc, pageVars>>

\* The response of an aborted request arrives: the browser drops it
CallLateResponse ==
    /\ call.net = "inflight" /\ call.aborted
    /\ call' = [call EXCEPT !.net = "closed"]
    /\ UNCHANGED <<quote, cleanQuote, qpc, pageVars>>

\* response.text() resolves with body: validation, sanitising, truncation, return
CallBody(body) ==
    /\ call.pc = "awaitText" /\ call.net = "open"
    /\ call' = IF IsEmptyBody(body)
               THEN CallCatch([call EXCEPT !.net = "closed"], EmptyMessage)
               ELSE [call EXCEPT !.pc = "returned", !.net = "closed",
                                 !.result = Truncate(Sanitize(body))]
    /\ UNCHANGED <<quote, cleanQuote, qpc, pageVars>>

\* The connection breaks while the body is read: response.text() rejects
CallBodyError ==
    /\ call.pc = "awaitText" /\ call.net = "open"
    /\ call' = CallCatch([call EXCEPT !.net = "closed"], NetworkMessage)
    /\ UNCHANGED <<quote, cleanQuote, qpc, pageVars>>

FetchBodies == PageBodies \cup {HelloWorld}

FetchInit ==
    call = NewCall /\ quote = <<>> /\ cleanQuote = <<>> /\ qpc = "off" /\ PageOff

FetchNext ==
    \/ \E k \in 0..(Len(apiConfigs) - 1) : CallStart(k)
    \/ CallTimeout
    \/ CallNetworkError
    \/ \E status \in Statuses, statusText \in StatusTexts : CallResponse(status, statusText)
    \/ CallLateResponse
    \/ \E body \in FetchBodies : CallBody(body)
    \/ CallBodyError

SpecFetch == FetchInit /\ [][FetchNext]_vars

\* ------------------------------------------------------------------------
\* The renderer on its own: one call of startTypewriterAnimation on the
\* element, its reveal and its blink phase, with the timers of the blink
\* phase run in the order they are due.
\* ------------------------------------------------------------------------

\* "Hi!", "a " followed by a full-width full stop, and the fallback text
RenderTexts == {<<72, 105, 33>>, <<97, 32, 12290>>, defaultText}

\* The element as the orchestration hands it over (the text of the loading or
\* of the failure state, the loading class removed, the cursor border set)
RenderInit ==
    /\ elementPresent = TRUE
    /\ initPc = "done"
    /\ element \in [textContent : {LoadingText, FailText}, classList : {{}},
                    borderRight : {Cursor}]
    /\ orchs = <<>>
    /\ sessions = <<>>
    /\ flashTimers = 0
    /\ uncaught = 0
    /\ QuoteOff
    /\ WidgetsOff

\* startTypewriterAnimation(element, text)
RenderStart(text) ==
    /\ initPc = "done" /\ orchs = <<>> /\ sessions = <<>>
    /\ \E flash \in FlashChoices(NewSession(0, text)) :
          LET r == StartTypewriterAnimation(element, 0, text, flash)
          IN  /\ sessions' = <<r.sess>>
              /\ flashTimers' = flashTimers + r.flashes
              /\ element' = r.el
              /\ uncaught' = IF r.thrown THEN uncaught + 1 ELSE uncaught
    /\ UNCHANGED <<elementPresent, initPc, orchs, quoteVars, widgetVars>>

\* blink() in due order: an 80 ms flash timer set during the reveal is due
\* before the first run of blink (500 ms after the reveal's end). The counter
\* ceiling of blink bounds the runs followed.
RenderBlink(s) ==
    /\ flashTimers = 0
    /\ Blink(s, BlinkCeiling + 1)

\* The 30 s timer in due order: it runs when no run of blink is due before it
\* (the run due at 30000 ms and the timer may come in either order)
RenderBlinkStop(s) ==
    /\ flashTimers = 0
    /\ s \in DOMAIN sessions
    /\ (sessions[s].blinkCount + 1) * BlinkPeriod >= BlinkStopMs
    /\ BlinkStop(s)

RenderNext ==
    \/ \E text \in RenderTexts : RenderStart(text)
    \/ RevealTick(1)
    \/ FlashOff
    \/ RenderBlink(1)
    \/ RenderBlinkStop(1)

\* An armed timer fires: the event loop runs every callback that is due.
RenderFairness ==
    /\ WF_vars(RevealTick(1))
    /\ WF_vars(FlashOff)
    /\ WF_vars(RenderBlink(1))
    /\ WF_vars(RenderBlinkStop(1))

SpecRender == RenderInit /\ [][RenderNext]_vars /\ RenderFairness

\* ------------------------------------------------------------------------
\* The page with fair scheduling: init runs to its end, every armed timer
\* fires (the event loop runs each callback that is due), and a response
\* body that is being read ends (it arrives or the read fails). The fetch
\* itself needs no assumption: its 5 s timer settles it.
\* ------------------------------------------------------------------------

PageFairness ==
    /\ WF_vars(InitSetupAdvancedEffects)
    /\ WF_vars(InitSetupTypewriterEffect)
    /\ WF_vars(\E o \in DOMAIN orchs : FetchStart(o))
    /\ WF_vars(\E o \in DOMAIN orchs : FetchTimeout(o))
    /\ WF_vars(\E o \in DOMAIN orchs :
                  BodyError(o) \/ \E body \in PageBodies : Body(o, body))
    /\ WF_vars(\E o \in DOMAIN orchs : Fallback(o))
    /\ WF_vars(\E s \in DOMAIN sessions : RevealTick(s))
    /\ WF_vars(FlashOff)
    /\ WF_vars(\E s \in DOMAIN sessions : BlinkStop(s))

SpecFair == Init /\ [][Next]_vars /\ PageFairness

\* ------------------------------------------------------------------------
\* The page and fetchDailyQuote's text processing side by side: a behaviour
\* is one of Spec or one of SpecQuote.
\* ------------------------------------------------------------------------

PageOrQuoteInit == Init \/ QuoteInit

PageOrQuoteNext == Next \/ QuoteNext

SpecPageOrQuote == PageOrQuoteInit /\ [][PageOrQuoteNext]_vars

\* ------------------------------------------------------------------------
\* MusicManager and its audio element (specification SpecMusic)
\*
\* The audio element follows the HTML standard: play() clears paused at once
\* and returns a promise; with readyState >= 3 the promise is taken off the
\* element's list of pending play promises and a task is queued that resolves
\* it, otherwise it stays pending until the data arrives; pause() and load()
\* set paused and reject the promises that are still pending, not the ones a
\* queued task is about to resolve. A play() the autoplay policy refuses
\* rejects and changes nothing.
\* ------------------------------------------------------------------------

MaxPromises == 3   \* play promises and canplay listeners outstanding at a time

ReadyStates == {0, 2, 4}   \* HAVE_NOTHING, HAVE_CURRENT_DATA, HAVE_ENOUGH_DATA

EventTypes == {"click", "keydown", "touchstart", "scroll"}

\* new MusicManager(): constructor and init()
NewMusic(readyState, policyAllows) ==
    [pc |-> "on",
     isPlaying |-> FALSE,           \* this.isPlaying
     paused |-> TRUE,               \* audio.paused
     readyState |-> readyState,     \* audio.readyState
     pending |-> 0,                 \* pending play promises of the audio element
     resolveTasks |-> 0,            \* queued tasks that resolve taken play promises
     canplayOnce |-> 0,             \* once-listeners for canplay added by play()
     autoplayTimer |-> Timer(3000), \* attemptAutoplay
     interactionHandled |-> FALSE,  \* setupInteractionListeners
     docListeners |-> EventTypes,   \* document listeners still registered
     activated |-> FALSE,           \* the page has had a user gesture
     policyAllows |-> policyAllows] \* autoplay is allowed without a gesture

Outstanding(m) == m.pending + m.resolveTasks + m.canplayOnce

\* audio.play() and the .then of MusicManager.play attached to its promise
AudioPlay(m) ==
    IF ~(m.activated \/ m.policyAllows) THEN m
    ELSE IF m.readyState >= 3
         THEN [m EXCEPT !.paused = FALSE, !.pending = 0, !.resolveTasks = @ + 1]
         ELSE [m EXCEPT !.paused = FALSE, !.pending = @ + 1]

\* audio.load(): the element is reset
AudioLoad(m) == [m EXCEPT !.readyState = 0, !.paused = TRUE, !.pending = 0]

\* MusicManager.play()
Play(m) ==
    IF m.readyState >= 2 THEN AudioPlay(m)
    ELSE AudioLoad([m EXCEPT !.canplayOnce = @ + 1])

\* MusicManager.pause()
Pause(m) == [m EXCEPT !.paused = TRUE, !.pending = 0, !.isPlaying = FALSE]

\* MusicManager.toggle()
Toggle(m) == IF m.isPlaying THEN Pause(m) ELSE Play(m)

\* handleInteraction as the listener of event type on document ({once: true})
HandleInteraction(m, type) ==
    IF type \notin m.docListeners THEN m
    ELSE IF ~m.interactionHandled /\ ~m.isPlaying
         THEN Play([m EXCEPT !.interactionHandled = TRUE, !.docListeners = {}])
         ELSE [m EXCEPT !.docListeners = @ \ {type}]

MusicOn == music.pc = "on"

MusicRest == UNCHANGED <<typewriterVars, quoteVars, particleSys, themeSys>>

\* The callback of the 3 s timer of attemptAutoplay
MusicAutoplay ==
    /\ MusicOn /\ music.autoplayTimer.armed
    /\ Outstanding(music) < MaxPromises
    /\ music' = Play([music EXCEPT !.autoplayTimer = NoTimer])
    /\ MusicRest

\* A click on the music button: its listener calls toggle(), then the event
\* bubbles to the document
MusicButtonClick ==
    /\ MusicOn
    /\ Outstanding(music) + 1 < MaxPromises
    /\ music' = HandleInteraction(Toggle([music EXCEPT !.activated = TRUE]), "click")
    /\ MusicRest

\* A click, key press, touch or scroll elsewhere on the page (a scroll is no
\* user gesture for the autoplay policy)
MusicInteraction(type) ==
    /\ MusicOn
    /\ Outstanding(music) < MaxPromises
    /\ music' = HandleInteraction(
                    [music EXCEPT !.activated = @ \/ type # "scroll"], type)
    /\ MusicRest

\* A queued task resolves play promises: the .then of play() runs
MusicResolve ==
    /\ MusicOn /\ music.resolveTasks > 0
    /\ music' = [music EXCEPT !.resolveTasks = @ - 1, !.isPlaying = TRUE]
    /\ MusicRest

\* The canplay listeners play() added, each this.play().then(resolve).catch(reject)
RECURSIVE CanPlay(_, _)
CanPlay(m, n) == IF n = 0 THEN m ELSE CanPlay(Play(m), n - 1)

\* The data of the audio arrives or runs short: readyState changes to rs. On
\* the way up to 3 or more the pending play promises of a playing element get
\* their resolving task and canplay is fired.
MusicProgress(rs) ==
    /\ MusicOn /\ rs # 0 /\ rs # music.readyState
    /\ LET m == [music EXCEPT !.readyState = rs]
       IN  music' =
              IF rs >= 3
              THEN CanPlay(IF ~m.paused /\ m.pending > 0
                           THEN [m EXCEPT !.pending = 0, !.resolveTasks = @ + 1,
                                          !.canplayOnce = 0]
                           ELSE [m EXCEPT !.canplayOnce = 0],
                           music.canplayOnce)
              ELSE m
    /\ MusicRest

MusicInit ==
    /\ \E rs \in ReadyStates, policyAllows \in BOOLEAN : music = NewMusic(rs, policyAllows)
    /\ ParticlesOff /\ ThemeOff /\ TypewriterOff /\ QuoteOff

MusicNext ==
    \/ MusicAutoplay
    \/ MusicButtonClick
    \/ \E type \in EventTypes : MusicInteraction(type)
    \/ MusicResolve
    \/ \E rs \in ReadyStates : MusicProgress(rs)

SpecMusic == MusicInit /\ [][MusicNext]_vars

\* ------------------------------------------------------------------------
\* AnimationSystem.particles and the particles container (SpecParticles)
\* ------------------------------------------------------------------------

MaxUpdates == 2   \* calls of updateParticleCount followed

Widths         == {767, 1024}     \* window.innerWidth
Cores          == {2, 8}          \* navigator.hardwareConcurrency
ParticleCounts == {30, 60, 100}   \* values of the particle-count slider

\* The constructor: this.particles = [], settings.particleCount = 100.
\* An element is a number; container is the set of the particle elements
\* attached to #particles-container.
NewParticles(hasContainer, width, cores, mobile) ==
    [pc |-> "init",                \* init, perf, ready
     particles |-> <<>>,           \* this.particles
     container |-> {},             \* children of the container
     hasContainer |-> hasContainer,
     innerWidth |-> width,
     hardwareConcurrency |-> cores,
     mobile |-> mobile,            \* the user agent matches the mobile pattern
     particleCount |-> 100,        \* this.settings.particleCount
     created |-> 0,                \* elements created so far
     updates |-> 0]                \* history: calls of updateParticleCount

\* setupParticleSystem()
SetupParticleSystem(p) ==
    IF ~p.hasContainer THEN p
    ELSE LET particleCount == IF p.innerWidth < 768 THEN 30 ELSE 60
         IN  [p EXCEPT !.particles = @ \o [i \in 1..particleCount |-> p.created + i],
                       !.container = @ \cup ((p.created + 1)..(p.created + particleCount)),
                       !.created = @ + particleCount]

\* setupPerformanceOptimizations(): the part that touches this.particles
SetupPerformanceOptimizations(p) ==
    LET isLowPerformance == p.hardwareConcurrency < 4 \/ p.innerWidth < 768 \/ p.mobile
    IN  IF isLowPerformance
        THEN [p EXCEPT !.particles = SubSeq(@, 1, Min({30, Len(@)}))]
        ELSE p

\* updateParticleCount(count)
UpdateParticleCount(p, count) ==
    SetupParticleSystem(
        [p EXCEPT !.particleCount = count,
                  !.container = @ \ {p.particles[k] : k \in 1..Len(p.particles)},
                  !.particles = <<>>])

ParticlesRest == UNCHANGED <<typewriterVars, quoteVars, music, themeSys>>

\* init(): this.setupParticleSystem()
ParticlesSetup ==
    /\ particleSys.pc = "init"
    /\ particleSys' = [SetupParticleSystem(particleSys) EXCEPT !.pc = "perf"]
    /\ ParticlesRest

\* init(): this.setupPerformanceOptimizations()
ParticlesPerf ==
    /\ particleSys.pc = "perf"
    /\ particleSys' = [SetupPerformanceOptimizations(particleSys) EXCEPT !.pc = "ready"]
    /\ ParticlesRest

\* The input listener of the particle-count slider
ParticlesUpdate(count) ==
    /\ particleSys.pc = "ready"
    /\ particleSys.updates < MaxUpdates
    /\ particleSys' = [UpdateParticleCount(particleSys, count) EXCEPT !.updates = @ + 1]
    /\ ParticlesRest

\* The window is resized
ParticlesResize(width) ==
    /\ particleSys.pc = "ready"
    /\ width # particleSys.innerWidth
    /\ particleSys' = [particleSys EXCEPT !.innerWidth = width]
    /\ ParticlesRest

ParticlesInit ==
    /\ \E hasContainer \in BOOLEAN, width \in Widths, cores \in Cores, mobile \in BOOLEAN :
          particleSys = NewParticles(hasContainer, width, cores, mobile)
    /\ MusicOff /\ ThemeOff /\ TypewriterOff /\ QuoteOff

ParticlesNext ==
    \/ ParticlesSetup
    \/ ParticlesPerf
    \/ \E count \in ParticleCounts : ParticlesUpdate(count)
    \/ \E width \in Widths : ParticlesResize(width)

SpecParticles == ParticlesInit /\ [][ParticlesNext]_vars

\* ------------------------------------------------------------------------
\* ThemeManager, the data-theme attribute of the document element and the
\* 'theme' entry of localStorage (specification SpecTheme)
\* ------------------------------------------------------------------------

MaxReloads == 2   \* page loads followed after the first
MaxSets    == 3   \* setTheme calls followed per page load

\* data-theme values of the .theme-btn elements, and values an earlier visit
\* may have left in localStorage
Themes       == {"dark", "light", "neon"}
StoredThemes == Themes \cup {"retro"}

\* A value that may be missing (getItem returns null, the attribute is not set)
Some(v)  == [has |-> TRUE, value |-> v]
Nothing  == [has |-> FALSE, value |-> ""]

\* x || 'dark' for a string or null x: null and the empty string are falsy
OrDark(x) == IF x.has /\ x.value # "" THEN x.value ELSE "dark"

\* The page before DOMContentLoaded
ThemePage(stored, htmlAttr, reloads) ==
    [pc |-> "load",            \* load: no ThemeManager yet; on: constructed
     currentTheme |-> "",      \* this.currentTheme
     attr |-> htmlAttr,        \* data-theme of document.documentElement
     active |-> {},            \* themes whose button has the class active
     stored |-> stored,        \* localStorage 'theme'
     htmlAttr |-> htmlAttr,    \* data-theme as the HTML file sets it
     lastSet |-> Nothing,      \* history: argument of the latest setTheme call
     sets |-> 0,               \* history: setTheme calls on this page load
     reloads |-> reloads]

\* applyTheme(theme)
ApplyTheme(t, theme) == [t EXCEPT !.attr = Some(theme)]

\* new ThemeManager(): constructor and init()
Construct(t) ==
    ApplyTheme([t EXCEPT !.pc = "on", !.currentTheme = OrDark(t.stored)],
               OrDark(t.stored))

\* SetTheme with the localStorage.setItem left out
SetThemeNoStore(t, theme) ==
    [ApplyTheme([t EXCEPT !.currentTheme = theme], theme) EXCEPT !.active = {theme}]

\* setTheme(theme)
SetTheme(t, theme) ==
    [ApplyTheme([t EXCEPT !.currentTheme = theme], theme)
        EXCEPT !.stored = Some(theme), !.active = {theme}]

ThemeRest == UNCHANGED <<typewriterVars, quoteVars, music, particleSys>>

\* DOMContentLoaded: const themeManager = new ThemeManager()
ThemeConstruct ==
    /\ themeSys.pc = "load"
    /\ themeSys' = Construct(themeSys)
    /\ ThemeRest

\* A click on the .theme-btn of theme
ThemeSet(theme) ==
    /\ themeSys.pc = "on"
    /\ themeSys.sets < MaxSets
    /\ themeSys' = [SetTheme(themeSys, theme) EXCEPT !.lastSet = Some(theme),
                                                    !.sets = @ + 1]
    /\ ThemeRest

\* The page is loaded again: localStorage stays, everything else starts over
ThemeReload ==
    /\ themeSys.pc = "on"
    /\ themeSys.reloads < MaxReloads
    /\ themeSys' = ThemePage(themeSys.stored, themeSys.htmlAttr, themeSys.reloads + 1)
    /\ ThemeRest

ThemeInit ==
    /\ \E stored \in {Nothing} \cup {Some(v) : v \in StoredThemes},
          htmlAttr \in {Nothing, Some("dark"), Some("light")} :
          themeSys = ThemePage(stored, htmlAttr, 0)
    /\ MusicOff /\ ParticlesOff /\ TypewriterOff /\ QuoteOff

ThemeNext ==
    \/ ThemeConstruct
    \/ \E theme \in Themes : ThemeSet(theme)
    \/ ThemeReload

SpecTheme == ThemeInit /\ [][ThemeNext]_vars

\* ------------------------------------------------------------------------
\* Properties of the page (specification Spec)
\* ------------------------------------------------------------------------

IsPrefix(p, t) == Len(p) <= Len(t) /\ SubSeq(t, 1, Len(p)) = p

LoadingTexts == {LoadingText \o Dots(n) : n \in 0..3}

\* A session with a pending reveal timer or a running blink timer
Active(s) == sessions[s].revealTimer.armed \/ sessions[s].blinkInterval.armed

SessionsOf(o) == {s \in DOMAIN sessions : sessions[s].by = o}

\* C1: the target element has at most one active typewriter session (one with
\* a pending reveal timer or a running blink timer) in every reachable state.
C1_AtMostOneActiveSession ==
    Cardinality({s \in DOMAIN sessions : Active(s)}) <= 1

\* C2: once a second session B has been started on the target, the target's
\* text is only ever a prefix of B's text (no tick of the first session
\* writes to it any more).
C2_OnlyPrefixesOfSecond ==
    Len(sessions) = 2 => IsPrefix(element.textContent, sessions[2].text)

\* C3: once a typewriter reveal has started writing to the target, the target
\* never shows the loading placeholder again (no loading interval that writes
\* to the element is still running).
C3_NoPlaceholderAfterReveal ==
    sessions # <<>> => element.textContent \notin LoadingTexts

\* C4: on one page load exactly one loading interval is created,
\* fetchDailyQuote is called once and the renderer is started once.
C4_OrchestrationRunsOnce ==
    /\ Len(orchs) <= 1
    /\ Cardinality({o \in DOMAIN orchs : orchs[o].pc # "idle"}) <= 1
    /\ Len(sessions) <= 1

\* C5: once the 5000 ms timer of a fetchDailyQuote call has fired, the request
\* is aborted and the call has failed, in that state and in every later one
\* (it never turns into a success), and the only render its orchestration
\* starts is the one of the fallback text, never one of a late response.
C5_TimeoutFailsForGood ==
    \A o \in DOMAIN orchs :
        orchs[o].timedOut =>
            /\ orchs[o].aborted
            /\ orchs[o].pc = "thrown"
            /\ ~orchs[o].timeoutId.armed
            /\ Cardinality(SessionsOf(o)) <= 1
            /\ \A s \in SessionsOf(o) : sessions[s].text = defaultText

\* C5 witness: a call timed out, the response of its request arrived later
\* and was dropped, and its orchestration has started the fallback render.
C5_Witness ==
    \E o \in DOMAIN orchs :
        /\ orchs[o].timedOut /\ orchs[o].net = "closed"
        /\ SessionsOf(o) # {}

\* C6: the step in which fetchDailyQuote fails stops the orchestration's
\* loading interval, writes the "failed, using default" text to the target and
\* arms a 1000 ms timer; the step in which that timer fires starts the
\* renderer with the fallback string; a failed orchestration never renders
\* any other text.
C6_FailureStep(o) ==
    (orchs[o].pc # "thrown" /\ orchs'[o].pc = "thrown") =>
        /\ ~orchs'[o].loadingInterval.armed
        /\ element'.textContent = FailText
        /\ orchs'[o].fallbackTimer = [armed |-> TRUE, delay |-> 1000]
        /\ sessions' = sessions

C6_FallbackStep(o) ==
    (orchs[o].fallbackTimer.armed /\ ~orchs'[o].fallbackTimer.armed) =>
        /\ Len(sessions') = Len(sessions) + 1
        /\ sessions'[Len(sessions')].by = o
        /\ sessions'[Len(sessions')].text = defaultText

C6_FailureShowsFallback ==
    /\ [][\A o \in DOMAIN orchs \cap DOMAIN orchs' :
            C6_FailureStep(o) /\ C6_FallbackStep(o)]_vars
    /\ [](\A o \in DOMAIN orchs :
            orchs[o].pc = "thrown" =>
                /\ ~orchs[o].loadingInterval.armed
                /\ orchs[o].fallbackTimer.armed \/ SessionsOf(o) # {}
                /\ \A s \in SessionsOf(o) : sessions[s].text = defaultText)

\* C6 witness: an orchestration whose fetch failed on an empty body (the
\* response arrived, so no timeout) has started the fallback render.
C6_Witness ==
    \E o \in DOMAIN orchs :
        /\ orchs[o].pc = "thrown" /\ ~orchs[o].timedOut
        /\ \E s \in SessionsOf(o) : sessions[s].text = defaultText


\* The sessions started in the step
Started == DOMAIN sessions' \ DOMAIN sessions

\* Session s revealed a character in the step
Revealed(s) == sessions'[s].currentIndex = sessions[s].currentIndex + 1

\* Session s entered its blink phase in the step
BlinkStarted(s) == ~sessions[s].blinkStop.armed /\ sessions'[s].blinkStop.armed

\* C16: a render of a text of length n makes exactly n reveals; the k-th
\* leaves the first k characters of the text in the target; the blink phase
\* starts only after the n-th (in the run of typeNextChar that follows it).
\* "Hi!" is shown as "H", "Hi", "Hi!" and then the cursor blinks.
C16_Step ==
    /\ \A s \in Started :
          /\ sessions'[s].currentIndex = 1
          /\ element'.textContent = SubSeq(sessions'[s].text, 1, 1)
          /\ ~sessions'[s].blinkInterval.armed /\ ~sessions'[s].blinkStop.armed
    /\ \A s \in DOMAIN sessions :
          /\ sessions'[s].text = sessions[s].text
          /\ sessions'[s].currentIndex \in {sessions[s].currentIndex,
                                            sessions[s].currentIndex + 1}
          /\ Revealed(s) =>
                /\ element'.textContent =
                      SubSeq(sessions[s].text, 1, sessions'[s].currentIndex)
                /\ ~BlinkStarted(s)
          /\ BlinkStarted(s) =>
                /\ sessions[s].currentIndex = Len(sessions[s].text)
                /\ sessions[s].blinkCount = 0 /\ ~sessions[s].blinkInterval.armed
                /\ sessions'[s].blinkInterval.armed

C16_RevealsThenBlinks ==
    /\ [][C16_Step]_vars
    /\ [](\A s \in DOMAIN sessions :
            /\ sessions[s].currentIndex <= Len(sessions[s].text)
            /\ (sessions[s].blinkInterval.armed \/ sessions[s].blinkStop.armed
                  \/ sessions[s].blinkCount > 0) =>
                  sessions[s].currentIndex = Len(sessions[s].text))

\* C16 witness: the session of the text "Hi!" has made its three reveals, the
\* target shows "Hi!" and the cursor has blinked.
C16_Witness ==
    \E s \in DOMAIN sessions :
        /\ sessions[s].text = <<72, 105, 33>>
        /\ sessions[s].currentIndex = 3
        /\ element.textContent = <<72, 105, 33>>
        /\ sessions[s].blinkInterval.armed /\ sessions[s].blinkCount > 0

\* C19: within a session the reveals are strictly sequential: at most one
\* reveal timer is pending, a reveal timer is set only by a run of typeNextChar
\* that revealed a character (the next reveal is scheduled by the one before
\* it, which ran because the pending timer fired), and the index goes up by
\* exactly 1 per reveal, from 0 to the length of the text and never beyond it.
C19_Step ==
    /\ \A s \in Started :
          sessions'[s].currentIndex = 1 /\ sessions'[s].revealTimers = 1
    /\ \A s \in DOMAIN sessions :
          /\ sessions'[s].currentIndex \in {sessions[s].currentIndex,
                                            sessions[s].currentIndex + 1}
          /\ Revealed(s) => sessions[s].revealTimers = 1
          /\ sessions'[s].revealTimers <= sessions[s].revealTimers
          /\ (sessions[s].revealTimers = 1 /\ sessions'[s].revealTimers = 0) =>
                sessions[s].currentIndex = Len(sessions[s].text)

C19_SequentialReveals ==
    /\ [][C19_Step]_vars
    /\ [](\A s \in DOMAIN sessions :
            /\ sessions[s].revealTimers \in {0, 1}
            /\ sessions[s].revealTimers = 1 <=> sessions[s].revealTimer.armed
            /\ sessions[s].currentIndex >= 0
            /\ sessions[s].currentIndex <= Len(sessions[s].text)
            /\ sessions[s].revealTimers = 1 => sessions[s].currentIndex >= 1)

\* C19 witness: two sessions run side by side, each with its one reveal timer
\* pending, the second one in the middle of its text after a flashed reveal.
C19_Witness ==
    /\ Len(sessions) = 2
    /\ sessions[1].revealTimers = 1 /\ sessions[2].revealTimers = 1
    /\ sessions[2].currentIndex = 2 /\ sessions[2].currentIndex < Len(sessions[2].text)
    /\ flashTimers > 0

\* C18: the renderer cannot fail: no run of typeNextChar raises an error, and
\* the run that completes the reveal (remove the typing class, start the
\* cursor blink, show the completion notification) gets to its end.
C18_RendererNeverThrows ==
    uncaught = 0

\* The delay range [lo, hi) C20 states for a character: 50 ms for the space,
\* 200 ms for sentence and clause punctuation, ASCII (. ! ? , ; :) as well as
\* full-width, [70, 100) for an ASCII letter, [90, 130) for anything else.
C20_Range(char) ==
    IF char = 32 THEN [lo |-> 50, hi |-> 51]
    ELSE IF char \in {46, 33, 63, 44, 59, 58,
                      65292, 12290, 65281, 65311, 12289, 65307, 65306}
         THEN [lo |-> 200, hi |-> 201]
    ELSE IF (char >= 65 /\ char <= 90) \/ (char >= 97 /\ char <= 122)
         THEN [lo |-> 70, hi |-> 100]
    ELSE [lo |-> 90, hi |-> 130]

\* C20: the delay of the timer set after a reveal depends on the class of the
\* revealed character only: exactly 50 ms after a space, exactly 200 ms after
\* every sentence or clause punctuation mark (the ASCII marks . ! ? , ; : and
\* the full-width ones), [70, 100) ms after an ASCII letter, [90, 130) ms
\* after any other character.
C20_DelayByClass ==
    \A s \in DOMAIN sessions :
        sessions[s].revealTimer.armed =>
            sessions[s].revealTimer.delay =
                C20_Range(sessions[s].text[sessions[s].currentIndex])

\* C24: the element's text is always the loading placeholder with 0 to 3
\* dots, the failure message, the empty string, or a prefix of the text of one
\* session; it is never a mixture of characters of two texts.
C24_TextIsOneOfFour ==
    \/ element.textContent \in LoadingTexts
    \/ element.textContent = FailText
    \/ element.textContent = <<>>
    \/ \E s \in DOMAIN sessions : IsPrefix(element.textContent, sessions[s].text)

\* C24 witness: two sessions with different texts reveal side by side; the
\* first wrote last, after two reveals of the second, and the element shows
\* the first two characters of the first one's text.
C24_Witness ==
    /\ Len(sessions) = 2
    /\ sessions[1].text # sessions[2].text
    /\ sessions[1].currentIndex = 2 /\ sessions[2].currentIndex >= 2
    /\ element.textContent = SubSeq(sessions[1].text, 1, 2)
    /\ ~IsPrefix(element.textContent, sessions[2].text)

\* ------------------------------------------------------------------------
\* Properties of fetchDailyQuote's text processing (specification SpecQuote)
\* ------------------------------------------------------------------------

\* The 0-based positions in [50, 60) of t that hold one of . ! ? and their
\* full-width forms
MarksInWindow(t) ==
    {i \in 50..59 : i + 1 <= Len(t) /\ t[i + 1] \in {46, 33, 63, 12290, 65281, 65311}}

\* C7: the string fetchDailyQuote returns has at most 60 characters.
C7_ReturnedLengthAtMost60 ==
    qpc = "returned" => Len(cleanQuote) <= 60

\* C7 witness: a quote was returned for a body whose sanitized text is longer
\* than 60 characters.
C7_Witness ==
    qpc = "returned" /\ Len(Sanitize(quote)) > 60

\* C8: for a sanitized text longer than 60 characters with a mark at a position
\* in [50, 60), the returned quote is the prefix that ends at the first such
\* mark, and has at most 60 characters.
C8_CutsAtFirstMark ==
    qpc = "returned" =>
        LET t == Sanitize(quote)
        IN  (Len(t) > 60 /\ MarksInWindow(t) # {}) =>
                /\ cleanQuote = SubSeq(t, 1, Min(MarksInWindow(t)) + 1)
                /\ Len(cleanQuote) <= 60

\* C8 witness: a returned quote whose sanitized text is longer than 60
\* characters and has two marks in the window, so that the first one decides.
C8_Witness ==
    /\ qpc = "returned"
    /\ Len(Sanitize(quote)) > 60
    /\ Cardinality(MarksInWindow(Sanitize(quote))) = 2

\* C9: for a sanitized text longer than 60 characters with no mark at positions
\* [50, 60), the returned quote is its first 57 characters followed by "...",
\* 60 characters in all.
C9_HardCutWithEllipsis ==
    qpc = "returned" =>
        LET t == Sanitize(quote)
        IN  (Len(t) > 60 /\ MarksInWindow(t) = {}) =>
                /\ cleanQuote = SubSeq(t, 1, 57) \o <<46, 46, 46>>
                /\ Len(cleanQuote) = 60

\* C9 witness: a returned quote whose sanitized text is longer than 60
\* characters, with a mark right behind the window (position 60) and none in it.
C9_Witness ==
    /\ qpc = "returned"
    /\ Len(Sanitize(quote)) > 60
    /\ MarksInWindow(Sanitize(quote)) = {}
    /\ Sanitize(quote)[61] \in {46, 12290, 65281, 65311}

\* C10: the sanitized text has no \r, \n or \t, its only white space character
\* is the space, no two white space characters are adjacent, none leads or
\* trails; "Hello\n\nWorld" becomes "Hello World".
C10_SanitizedIsClean ==
    qpc = "clean" =>
        /\ \A k \in 1..Len(cleanQuote) :
              /\ cleanQuote[k] \notin {13, 10, 9}
              /\ cleanQuote[k] \in WhiteSpace => cleanQuote[k] = 32
              /\ k < Len(cleanQuote) =>
                    ~(cleanQuote[k] \in WhiteSpace /\ cleanQuote[k + 1] \in WhiteSpace)
        /\ cleanQuote # <<>>
        /\ cleanQuote[1] \notin WhiteSpace
        /\ cleanQuote[Len(cleanQuote)] \notin WhiteSpace
        /\ quote = <<72, 101, 108, 108, 111, 10, 10, 87, 111, 114, 108, 100>> =>
              cleanQuote = <<72, 101, 108, 108, 111, 32, 87, 111, 114, 108, 100>>

\* C10 witness: "Hello\n\nWorld" has been sanitized to "Hello World".
C10_Witness ==
    /\ qpc = "clean"
    /\ quote = <<72, 101, 108, 108, 111, 10, 10, 87, 111, 114, 108, 100>>
    /\ cleanQuote = <<72, 101, 108, 108, 111, 32, 87, 111, 114, 108, 100>>

\* C11: the sanitising replaces the typographic double quotes U+201C and U+201D
\* by " and the typographic single quotes U+2018 and U+2019 by ', so that the
\* sanitized text and the returned quote hold none of the four.
C11_NoSmartQuotes ==
    qpc \in {"clean", "returned"} =>
        \A k \in 1..Len(cleanQuote) : cleanQuote[k] \notin {8220, 8221, 8216, 8217}

\* C12: the sanitising is idempotent: applied to a sanitized text it returns
\* that text unchanged, sanitize(sanitize(s)) = sanitize(s).
C12_SanitizeIdempotent ==
    qpc = "clean" => Sanitize(cleanQuote) = cleanQuote

\* C12 witness: a body that the sanitising changed (white space at an end or a
\* line break inside) has been sanitized, and sanitising the result again
\* gives the same text.
C12_Witness ==
    /\ qpc = "clean"
    /\ cleanQuote # quote
    /\ \E k \in 1..Len(cleanQuote) : cleanQuote[k] = 32
    /\ Sanitize(cleanQuote) = cleanQuote

\* ------------------------------------------------------------------------
\* Properties that span the fetcher and the renderer (SpecPageOrQuote)
\* ------------------------------------------------------------------------

AllWhiteSpace(t) == \A k \in 1..Len(t) : t[k] \in WhiteSpace

\* C13: for a response body that is empty or holds white space only,
\* fetchDailyQuote fails: it never gets to sanitising and never returns; what
\* it returns is never empty or white space only; and the renderer is never
\* started with an empty text.
C13_EmptyBodyFails ==
    /\ (qpc \in {"clean", "returned", "thrown"} /\ AllWhiteSpace(quote)) => qpc = "thrown"
    /\ qpc = "returned" => (cleanQuote # <<>> /\ ~AllWhiteSpace(cleanQuote))
    /\ \A s \in DOMAIN sessions : sessions[s].text # <<>>

\* C13 witness: fetchDailyQuote has thrown for a body that is not the empty
\* string but holds white space only.
C13_Witness ==
    qpc = "thrown" /\ quote # <<>> /\ AllWhiteSpace(quote)

\* ------------------------------------------------------------------------
\* Properties of one call of fetchDailyQuote (specification SpecFetch)
\* ------------------------------------------------------------------------

\* The three decimal digits of a status code between 100 and 999
StatusDigits(s) == <<48 + (s \div 100), 48 + ((s \div 10) % 10), 48 + (s % 10)>>

\* C14: when the response's status is not a success status (200..299),
\* fetchDailyQuote fails without reading the body (response.text() is never
\* called) and without returning anything, and the message of the error it
\* throws holds the HTTP status code.
C14_HttpErrorFails ==
    (call.status # 0 /\ ~(call.status >= 200 /\ call.status <= 299)) =>
        /\ call.pc = "thrown"
        /\ call.textCalls = 0
        /\ call.result = <<>>
        /\ \E i \in 1..(Len(call.error) - 2) :
              SubSeq(call.error, i, i + 2) = StatusDigits(call.status)

\* C14 witness: the call has failed on a response with status 404.
C14_Witness ==
    call.status = 404 /\ call.pc = "thrown" /\ call.net = "closed"

\* C15: one call of fetchDailyQuote sends exactly one request, to one of the
\* five fixed URLs (?c=d, i, k, f, e); no second request follows a failure.
C15_OneRequest ==
    /\ Len(call.requests) <= 1
    /\ call.pc \notin {"start", "off"} => Len(call.requests) = 1
    /\ \A k \in 1..Len(call.requests) : call.requests[k] \in {100, 105, 107, 102, 101}

\* C15 witness: a call whose request was answered with status 500 has failed,
\* and its one request is all it sent.
C15_Witness ==
    call.pc = "thrown" /\ call.status = 500 /\ Len(call.requests) = 1

\* C23: every call of fetchDailyQuote settles whatever the network does: the
\* 5000 ms timer stays armed until the call has returned or thrown, so a
\* response whose body never finishes arriving still ends in a timeout failure.
C23_TimerArmedUntilSettled ==
    call.pc \in {"awaitFetch", "awaitText"} => call.timeoutId.armed

\* ------------------------------------------------------------------------
\* Properties of the renderer on its own (specification SpecRender)
\* ------------------------------------------------------------------------

\* The blink phase of session s is running
Blinking(s) == s \in DOMAIN sessions /\ sessions[s].blinkInterval.armed

\* Session s has been through its blink phase and has no timer left
Ended(s) ==
    /\ s \in DOMAIN sessions
    /\ sessions[s].currentIndex = Len(sessions[s].text)
    /\ ~sessions[s].revealTimer.armed
    /\ ~sessions[s].blinkInterval.armed
    /\ ~sessions[s].blinkStop.armed

\* C17: the blink phase of a session always ends: within the fixed ceiling
\* (30 s, which is at most 60 runs of blink and so within the 120 of the
\* counter) the blink timer is stopped and the border-right cursor is cleared
\* in the same step, and from then on the session changes neither the element
\* nor its own state.
C17_BlinkEnds ==
    /\ Blinking(1) ~> (Ended(1) /\ element.borderRight = NoBorder)
    /\ [][(Blinking(1) /\ ~Blinking(1)') =>
             (Ended(1)' /\ element'.borderRight = "none")]_vars
    /\ [][Ended(1) => (element' = element /\ sessions' = sessions)]_vars
    /\ [](\A s \in DOMAIN sessions :
            /\ sessions[s].blinkCount * 500 <= 30000
            /\ sessions[s].blinkCount <= 120)

\* C17 witness: the session has ended after 60 runs of blink, the border is
\* cleared and the text is in place.
C17_Witness ==
    /\ Ended(1)
    /\ sessions[1].blinkCount = 60
    /\ element.borderRight = "none"
    /\ element.textContent = sessions[1].text

\* C21: when startTypewriterAnimation returns, the element's content is empty
\* and the session's index is 0; the first character is written by a timer
\* that fires later, not during the call.
C21_StartsEmpty ==
    [][\A s \in Started :
          /\ sessions'[s].currentIndex = 0
          /\ element'.textContent = <<>>]_vars

\* C22: the two stop conditions of the blink phase coincide: when the 30 s
\* timer stops the blinking, the counter of blink has just passed its ceiling
\* of 120 runs.
C22_StopsCoincide ==
    \A s \in DOMAIN sessions :
        Ended(s) => sessions[s].blinkCount \in {120, 121}

\* ------------------------------------------------------------------------
\* Properties of the page under fair scheduling (specification SpecFair)
\* ------------------------------------------------------------------------

\* No timer of the quote subsystem is pending
NoTimerLeft ==
    /\ \A o \in DOMAIN orchs :
          /\ ~orchs[o].loadingInterval.armed /\ ~orchs[o].fetchDelay.armed
          /\ ~orchs[o].timeoutId.armed /\ ~orchs[o].fallbackTimer.armed
    /\ \A s \in DOMAIN sessions :
          /\ ~sessions[s].revealTimer.armed
          /\ ~sessions[s].blinkInterval.armed /\ ~sessions[s].blinkStop.armed
    /\ flashTimers = 0

\* The element shows the whole text of a render (a fetched quote or the
\* fallback string) and no cursor
Quiescent ==
    /\ NoTimerLeft
    /\ \E s \in DOMAIN sessions : element.textContent = sessions[s].text
    /\ element.borderRight = "none"

\* C25: on a page that has the element, under fair timer scheduling and a
\* fetch that settles, eventually every timer of the quote subsystem has fired
\* for the last time or been cleared, and from then on the element shows,
\* unchanged, the complete text of a quote with the cursor border cleared.
C25_Quiescence ==
    /\ elementPresent => <>[]Quiescent
    /\ []((elementPresent /\ initPc = "done" /\ NoTimerLeft) => Quiescent)
    /\ [][Quiescent => (Quiescent' /\ element' = element)]_vars

\* C25 witness: both orchestrations are through, one with a fetched quote and
\* one with the fallback text, no timer is left and the element shows the
\* whole text of one of the two renders.
C25_Witness ==
    /\ Quiescent
    /\ Len(sessions) = 2
    /\ sessions[1].text # sessions[2].text
    /\ \E s \in DOMAIN sessions : sessions[s].text = defaultText

\* ------------------------------------------------------------------------
\* Properties of MusicManager (specification SpecMusic)
\* ------------------------------------------------------------------------

\* C26: after any interleaving of toggle(), play(), pause() and the settling
\* of play promises, isPlaying is true exactly when the audio was last started
\* with success and not paused since; in particular a play promise that
\* resolves after pause() never leaves isPlaying true while the audio is paused.
C26_PlayingMeansNotPaused ==
    music.pc = "on" => (music.isPlaying => ~music.paused)

\* ------------------------------------------------------------------------
\* Properties of the particle system (specification SpecParticles)
\* ------------------------------------------------------------------------

\* C27: this.particles holds exactly the particle elements attached to the
\* particles container, after init (the low-performance slice to 30 entries
\* included) and after updateParticleCount(count), which removes every earlier
\* particle element and leaves as many particles as count asks for.
C27_ParticlesAreTheAttached ==
    particleSys.pc = "ready" =>
        /\ {particleSys.particles[k] : k \in 1..Len(particleSys.particles)}
              = particleSys.container
        /\ (particleSys.updates > 0 /\ particleSys.hasContainer) =>
              Len(particleSys.particles) = particleSys.particleCount

\* ------------------------------------------------------------------------
\* Properties of ThemeManager (specification SpecTheme)
\* ------------------------------------------------------------------------

====
